---- MODULE Spec2Model ----
(***************************************************************************)
(* Model of the cover-letter engine: the paragraph classifier and renderer *)
(* of pdf.py (create_pdf, create_pdf_advanced), the response clean-up of   *)
(* prompt.py (generate_cover_letter_with_ai) and the validation glue of    *)
(* main.py (validate_resume, validate_job_description,                     *)
(* generate_cover_letter), and the session state of app.py.                *)
(*                                                                         *)
(* Text is a sequence of one-character strings, so that split, strip,      *)
(* startswith, find and "in" are computed character by character.          *)
(***************************************************************************)
EXTENDS Integers, Sequences, FiniteSets, TLC

VARIABLES
    \* ---- pdf.py ----
    entry,           \* which renderer the caller invoked
    rawText,         \* the text the caller passed to the renderer it invoked
    cover_letter_text, \* the parameter of the running create_pdf call
    pdfPc,           \* position inside create_pdf
    paragraphs,      \* cover_letter_text.split('\n\n')
    idx,             \* the loop variable i of enumerate(paragraphs)
    greeting_found,
    closing_found,
    elements,        \* the list handed to doc.build
    roleLog,         \* history: per paragraph visited, the branch taken and
                     \* the length of elements when it was reached
    buffer,          \* the BytesIO buffer of create_pdf
    pdfResult,       \* outcome of create_pdf
    advPc,           \* position inside create_pdf_advanced
    advParas,        \* the paragraphs of create_pdf_advanced (line 255)
    advIdx,          \* para_idx
    y_position,      \* the vertical cursor, in micro-points
    page,            \* the page the canvas is on
    drawn,           \* history: every c.drawString, with page and cursor
    advResult,       \* outcome of create_pdf_advanced
    advFailure,      \* history: the exception caught at pdf.py:315, if any
    \* ---- main.py / prompt.py ----
    resume,
    job_description,
    genPc,           \* position inside generate_cover_letter
    upstream,        \* history: the reply the model meant to give this run
    invoked,         \* history: bedrock.invoke_model has been called
    content,         \* result['content'][0]['text']
    cover_letter,    \* the local of generate_cover_letter_with_ai at line 382
    aiResult,        \* outcome of generate_cover_letter_with_ai
    mainResult,      \* outcome of generate_cover_letter
    \* ---- app.py ----
    appPc,           \* position of the script run inside the Generate handler
    resume_data,     \* what load_resume returned (cached)
    text_area,       \* the text of the job description widget
    session_cover_letter, \* st.session_state.cover_letter
    session_pdf_bytes,    \* st.session_state.pdf_bytes
    rendered_from,   \* history: the argument of the create_pdf call whose
                     \* bytes session_pdf_bytes holds
    message          \* what the last script run showed: success, error, hint

pdfLocals == <<paragraphs, idx, greeting_found, closing_found, elements,
               roleLog, buffer>>
advLocals == <<advParas, advIdx, y_position, page, drawn>>
pdfVars == <<entry, rawText, cover_letter_text, pdfPc, pdfLocals, pdfResult,
             advPc, advLocals, advResult, advFailure>>
genVars == <<resume, job_description, genPc, upstream, invoked, content,
             cover_letter, aiResult, mainResult>>
appVars == <<appPc, resume_data, text_area, session_cover_letter,
             session_pdf_bytes, rendered_from, message>>
vars == <<pdfVars, genVars, appVars>>

----------------------------------------------------------------------------
(* Characters and Python's str methods                                     *)

Whitespace == {" ", "\n", "\t", "\r", "\f"}
Digits == {"0", "1", "2", "3", "4", "5", "6", "7", "8", "9"}

UpperCase == <<"A","B","C","D","E","F","G","H","I","J","K","L","M",
               "N","O","P","Q","R","S","T","U","V","W","X","Y","Z">>
LowerCase == <<"a","b","c","d","e","f","g","h","i","j","k","l","m",
               "n","o","p","q","r","s","t","u","v","w","x","y","z">>

\* str.strip(chars): drop the leading and trailing characters that are in cs
StripChars(s, cs) ==
    IF \A k \in 1..Len(s) : s[k] \in cs THEN <<>>
    ELSE LET first == CHOOSE k \in 1..Len(s) :
                          s[k] \notin cs /\ \A j \in 1..(k - 1) : s[j] \in cs
             last == CHOOSE k \in 1..Len(s) :
                          s[k] \notin cs /\ \A j \in (k + 1)..Len(s) : s[j] \in cs
         IN  SubSeq(s, first, last)

\* str.strip()
Strip(s) == StripChars(s, Whitespace)

\* sub occurs in s at the 1-based position k
OccursAt(s, sub, k) ==
    /\ k >= 1
    /\ k + Len(sub) - 1 <= Len(s)
    /\ \A j \in 1..Len(sub) : s[k + j - 1] = sub[j]

\* str.startswith
StartsWith(s, p) == OccursAt(s, p, 1)

\* sub in s
Contains(s, sub) == \E k \in 1..Len(s) : OccursAt(s, sub, k)

\* str.find, 0-based, -1 when absent
Find(s, sub) ==
    IF ~Contains(s, sub) THEN -1
    ELSE (CHOOSE k \in 1..Len(s) :
              OccursAt(s, sub, k) /\ \A j \in 1..(k - 1) : ~OccursAt(s, sub, j)) - 1

\* str.rfind, 0-based, -1 when absent
RFind(s, sub) ==
    IF ~Contains(s, sub) THEN -1
    ELSE (CHOOSE k \in 1..Len(s) :
              OccursAt(s, sub, k) /\ \A j \in (k + 1)..Len(s) : ~OccursAt(s, sub, j)) - 1

LowerOf == [k \in 1..26 |-> LowerCase[k]]
UpperSet == {UpperCase[k] : k \in 1..26}

LowerChar(c) ==
    IF c \in UpperSet
    THEN LowerOf[CHOOSE k \in 1..26 : UpperCase[k] = c]
    ELSE c

\* str.lower
Lower(s) == [k \in 1..Len(s) |-> LowerChar(s[k])]

\* str.split(sep): left to right, non-overlapping; always at least one piece
RECURSIVE Split(_, _)
Split(s, sep) ==
    LET at == Find(s, sep)
    IN  IF at < 0 THEN <<s>>
        ELSE <<SubSeq(s, 1, at)>>
             \o Split(SubSeq(s, at + Len(sep) + 1, Len(s)), sep)

\* str.replace(old, new) for a one-character old
ReplaceChar(s, old, new) == [k \in 1..Len(s) |-> IF s[k] = old THEN new ELSE s[k]]

\* sep.join(ss)
RECURSIVE Join(_, _)
Join(ss, sep) ==
    IF ss = <<>> THEN <<>>
    ELSE IF Len(ss) = 1 THEN ss[1]
    ELSE ss[1] \o sep \o Join(Tail(ss), sep)

Rep(c, n) == [k \in 1..n |-> c]

----------------------------------------------------------------------------
(* pdf.py: create_pdf, the per-paragraph tests (lines 118-138)             *)

NL == <<"\n">>
BlankLine == <<"\n", "\n">>

At == <<"@">>
Http == <<"h","t","t","p">>
Www == <<"w","w","w",".">>
SubjectPrefix == <<"S","u","b","j","e","c","t",":">>
DearPrefix == <<"D","e","a","r">>
SincerelyPrefix == <<"S","i","n","c","e","r","e","l","y">>

Months == {
    <<"J","a","n","u","a","r","y">>,
    <<"F","e","b","r","u","a","r","y">>,
    <<"M","a","r","c","h">>,
    <<"A","p","r","i","l">>,
    <<"M","a","y">>,
    <<"J","u","n","e">>,
    <<"J","u","l","y">>,
    <<"A","u","g","u","s","t">>,
    <<"S","e","p","t","e","m","b","e","r">>,
    <<"O","c","t","o","b","e","r">>,
    <<"N","o","v","e","m","b","e","r">>,
    <<"D","e","c","e","m","b","e","r">> }

DateMaxLen == 50
EmployerMaxLen == 200

has_email(p) == Contains(p, At)

has_phone(p) ==
    /\ \E k \in 1..Len(p) : p[k] \in Digits
    /\ (Contains(p, <<"-">>) \/ Contains(p, <<"(">>))

has_url(p) == Contains(Lower(p), Http) \/ Contains(Lower(p), Www)

\* is_header with the e-mail test left out
is_header_NoEmail(p, i) == i = 0 /\ (has_phone(p) \/ has_url(p))

is_header(p, i) == i = 0 /\ (has_email(p) \/ has_phone(p) \/ has_url(p))

\* is_date with the length limit off by one
is_date_Inclusive(p) == Len(p) <= DateMaxLen /\ \E m \in Months : Contains(p, m)

\* any(month in para_text ...) and len(para_text) < 50; the length is
\* tested first here, the order of two pure tests being immaterial
is_date(p) == Len(p) < DateMaxLen /\ \E m \in Months : Contains(p, m)

is_subject(p) == StartsWith(p, SubjectPrefix)

is_greeting(p) == StartsWith(p, DearPrefix)

is_closing(p) == StartsWith(p, SincerelyPrefix)

\* is_employer_info with the length limit of the date test
is_employer_info_DateLimit(p, i, gf) ==
    /\ ~is_header(p, i) /\ ~is_date(p) /\ ~is_subject(p)
    /\ ~is_greeting(p) /\ ~is_closing(p)
    /\ ~gf /\ i > 0 /\ Len(p) < DateMaxLen
    /\ Contains(p, NL)

\* is_employer_info without the tests of lines 135-136 for the prefixes
is_employer_info_AnyPrefix(p, i, gf) ==
    /\ ~is_header(p, i) /\ ~is_date(p)
    /\ ~gf /\ i > 0 /\ Len(p) < EmployerMaxLen
    /\ Contains(p, NL)

is_employer_info(p, i, gf) ==
    /\ ~is_header(p, i) /\ ~is_date(p) /\ ~is_subject(p)
    /\ ~is_greeting(p) /\ ~is_closing(p)
    /\ ~gf /\ i > 0 /\ Len(p) < EmployerMaxLen
    /\ Contains(p, NL)

\* Branch with the "not" of line 192 missing
Branch_BodyNeedsClosing(p, i, gf, cf) ==
    IF is_header(p, i) THEN "Header"
    ELSE IF is_date(p) THEN "Date"
    ELSE IF is_employer_info(p, i, gf) THEN "EmployerInfo"
    ELSE IF is_subject(p) THEN "Subject"
    ELSE IF is_greeting(p) THEN "Greeting"
    ELSE IF is_closing(p) THEN "Closing"
    ELSE IF gf /\ cf THEN "Body"
    ELSE "Dropped"

\* The branch of the if-chain (lines 141-196) that handles the stripped
\* paragraph p at index i under the flags gf (greeting_found) and cf
\* (closing_found); "Dropped" when no branch appends anything.
Branch(p, i, gf, cf) ==
    IF is_header(p, i) THEN "Header"
    ELSE IF is_date(p) THEN "Date"
    ELSE IF is_employer_info(p, i, gf) THEN "EmployerInfo"
    ELSE IF is_subject(p) THEN "Subject"
    ELSE IF is_greeting(p) THEN "Greeting"
    ELSE IF is_closing(p) THEN "Closing"
    ELSE IF gf /\ ~cf THEN "Body"
    ELSE "Dropped"

Para(text, style) == [kind |-> "Paragraph", text |-> text, style |-> style]
Spacer == [kind |-> "Spacer", text |-> <<>>, style |-> "0.4cm"]

\* for line in para_text.split('\n'): if line.strip(): Paragraph(line.strip(), style)
RECURSIVE LineParas(_, _)
LineParas(lines, style) ==
    IF lines = <<>> THEN <<>>
    ELSE (IF Strip(Head(lines)) # <<>>
          THEN <<Para(Strip(Head(lines)), style)>> ELSE <<>>)
         \o LineParas(Tail(lines), style)

\* Emitted with the Body branch keeping the paragraph's line breaks
Emitted_BodyKeepsBreaks(p, branch) ==
    CASE branch = "Header" ->
            LineParas(Split(p, NL), "header_style") \o <<Spacer>>
      [] branch = "Date" -> <<Para(p, "info_style"), Spacer>>
      [] branch = "EmployerInfo" ->
            LineParas(Split(p, NL), "info_style") \o <<Spacer>>
      [] branch = "Subject" -> <<Para(p, "info_style"), Spacer>>
      [] branch = "Greeting" -> <<Para(p, "greeting_style")>>
      [] branch = "Closing" -> LineParas(Split(p, NL), "closing_style")
      [] branch = "Body" -> <<Para(p, "body_style")>>
      [] OTHER -> <<>>

\* what the chosen branch appends to elements
Emitted(p, branch) ==
    CASE branch = "Header" ->
            LineParas(Split(p, NL), "header_style") \o <<Spacer>>
      [] branch = "Date" -> <<Para(p, "info_style"), Spacer>>
      [] branch = "EmployerInfo" ->
            LineParas(Split(p, NL), "info_style") \o <<Spacer>>
      [] branch = "Subject" -> <<Para(p, "info_style"), Spacer>>
      [] branch = "Greeting" -> <<Para(p, "greeting_style")>>
      [] branch = "Closing" -> LineParas(Split(p, NL), "closing_style")
      [] branch = "Body" -> <<Para(ReplaceChar(p, "\n", " "), "body_style")>>
      [] OTHER -> <<>>

----------------------------------------------------------------------------
(* pdf.py: outcomes                                                        *)

NoBytes == [signature |-> "", producer |-> "", story |-> <<>>, complete |-> FALSE]

\* buffer.getvalue() after a successful doc.build(story) / c.save()
PdfBytes(producer, story) ==
    [signature |-> "%PDF", producer |-> producer, story |-> story, complete |-> TRUE]

\* what the buffer may hold when the build of story stopped part-way
PartialBytes(producer, story) ==
    [signature |-> "%PDF", producer |-> producer, story |-> story, complete |-> FALSE]

NoResult == [kind |-> "none", value |-> NoBytes, error |-> <<>>]
Returned(bytes) == [kind |-> "return", value |-> bytes, error |-> <<>>]
Raised(msg) == [kind |-> "raise", value |-> NoBytes, error |-> msg]

\* raise Exception(f"Failed to generate PDF: {str(e)}")
PdfWrapped(cause) == Raised(<<"Failed to generate PDF: ">> \o cause)

\* the exceptions the layout library can raise inside create_pdf
ParagraphError == <<"paraparser: syntax error">>
LayoutError == <<"LayoutError">>

----------------------------------------------------------------------------
(* pdf.py: create_pdf as a state machine                                   *)

\* lines 23-109: set-up, split, flags
CreatePdfStart ==
    /\ pdfPc = "start"
    /\ paragraphs' = Split(cover_letter_text, BlankLine)
    /\ idx' = 0
    /\ greeting_found' = FALSE
    /\ closing_found' = FALSE
    /\ elements' = <<>>
    /\ roleLog' = <<>>
    /\ buffer' = NoBytes
    /\ pdfPc' = "loop"
    /\ UNCHANGED <<entry, rawText, cover_letter_text, pdfResult, advPc, advLocals, advResult,
                   advFailure, genVars, appVars>>

\* the stripped paragraph the loop is about to look at
CurrentPara == Strip(paragraphs[idx + 1])

CurrentBranch ==
    IF CurrentPara = <<>> THEN "Blank"
    ELSE Branch(CurrentPara, idx, greeting_found, closing_found)

\* CreatePdfStep with a greeting clearing closing_found
CreatePdfStep_GreetingReopens ==
    /\ pdfPc = "loop"
    /\ idx < Len(paragraphs)
    /\ LET branch == CurrentBranch
       IN  /\ elements' = elements \o Emitted(CurrentPara, branch)
           /\ greeting_found' = (greeting_found \/ branch = "Greeting")
           /\ closing_found' = (branch # "Greeting" /\ (closing_found \/ branch = "Closing"))
           /\ roleLog' = Append(roleLog, [role |-> branch, at |-> Len(elements)])
    /\ idx' = idx + 1
    /\ UNCHANGED <<entry, rawText, cover_letter_text, pdfPc, paragraphs, buffer, pdfResult,
                   advPc, advLocals, advResult, advFailure, genVars, appVars>>

\* lines 112-196: one iteration of the loop, every Paragraph() succeeding
CreatePdfStep ==
    /\ pdfPc = "loop"
    /\ idx < Len(paragraphs)
    /\ LET branch == CurrentBranch
       IN  /\ elements' = elements \o Emitted(CurrentPara, branch)
           /\ greeting_found' = (greeting_found \/ branch = "Greeting")
           /\ closing_found' = (closing_found \/ branch = "Closing")
           /\ roleLog' = Append(roleLog, [role |-> branch, at |-> Len(elements)])
    /\ idx' = idx + 1
    /\ UNCHANGED <<entry, rawText, cover_letter_text, pdfPc, paragraphs, buffer, pdfResult,
                   advPc, advLocals, advResult, advFailure, genVars, appVars>>

\* lines 207-208 entered from the loop: a Paragraph() constructor raised.
\* The locals of the abandoned frame play no further part.
CreatePdfStepFail ==
    /\ pdfPc = "loop"
    /\ idx < Len(paragraphs)
    /\ CurrentBranch \notin {"Blank", "Dropped"}
    /\ pdfResult' = PdfWrapped(ParagraphError)
    /\ pdfPc' = "done"
    /\ UNCHANGED <<entry, rawText, cover_letter_text, pdfLocals,
                   advPc, advLocals, advResult, advFailure, genVars, appVars>>

\* lines 198-205: doc.build succeeds, the buffer's bytes are returned
CreatePdfBuild ==
    /\ pdfPc = "loop"
    /\ idx = Len(paragraphs)
    /\ buffer' = PdfBytes("platypus", elements)
    /\ pdfResult' = Returned(buffer')
    /\ pdfPc' = "done"
    /\ UNCHANGED <<entry, rawText, cover_letter_text, paragraphs, idx, greeting_found,
                   closing_found, elements, roleLog,
                   advPc, advLocals, advResult, advFailure, genVars, appVars>>

\* CreatePdfBuildFail with the handler returning what the buffer holds
CreatePdfBuildFail_ReturnsBuffer ==
    /\ pdfPc = "loop"
    /\ idx = Len(paragraphs)
    /\ buffer' \in {NoBytes, PartialBytes("platypus", elements)}
    /\ pdfResult' = Returned(buffer')
    /\ pdfPc' = "done"
    /\ UNCHANGED <<entry, rawText, cover_letter_text, paragraphs, idx, greeting_found,
                   closing_found, elements, roleLog,
                   advPc, advLocals, advResult, advFailure, genVars, appVars>>

\* line 199 raises: part of the story may already be in the buffer
CreatePdfBuildFail ==
    /\ pdfPc = "loop"
    /\ idx = Len(paragraphs)
    /\ buffer' \in {NoBytes, PartialBytes("platypus", elements)}
    /\ pdfResult' = PdfWrapped(LayoutError)
    /\ pdfPc' = "done"
    /\ UNCHANGED <<entry, rawText, cover_letter_text, paragraphs, idx, greeting_found,
                   closing_found, elements, roleLog,
                   advPc, advLocals, advResult, advFailure, genVars, appVars>>

----------------------------------------------------------------------------
(* pdf.py: create_pdf_advanced, geometry (lines 232-252), in micro-points  *)

PageWidth == 612000000
PageHeight == 792000000
Cm == 28346457
FontSize == 11
LineHeight == 13200000
BlankLineDrop == 13200000
ParaGap == 11000000

margin == (13 * Cm) \div 10
left_margin == margin
right_margin == PageWidth - margin
top_margin == PageHeight - margin
bottom_margin == margin

\* bottom_margin + 2 * cm, the threshold of lines 288 and 302
PageBreakThreshold == bottom_margin + 2 * Cm

\* Times-Roman advance widths, in 1/1000 of the font size
CharWidth(c) ==
    CASE c \in {" ", ",", "."} -> 250
      [] c \in {"i", "j", "l", "t", ":", ";", "/"} -> 278
      [] c \in {"f", "r", "I", "-", "(", ")", "!"} -> 333
      [] c \in {"s", "J"} -> 389
      [] c \in {"a", "c", "e", "z", "?"} -> 444
      [] c \in {"F", "P", "S"} -> 556
      [] c \in {"E", "L", "T", "Z"} -> 611
      [] c \in {"B", "C", "R"} -> 667
      [] c \in {"w", "A", "D", "G", "H", "K", "N", "O", "Q", "U", "V", "X", "Y"} -> 722
      [] c = "m" -> 778
      [] c = "M" -> 889
      [] c = "@" -> 921
      [] c = "W" -> 944
      [] c = "\"" -> 408
      [] c \in {"{", "}"} -> 480
      [] OTHER -> 500

\* the widths of s[lo..hi] added up, by halves
RECURSIVE SumWidths(_, _, _)
SumWidths(s, lo, hi) ==
    IF lo > hi THEN 0
    ELSE IF lo = hi THEN CharWidth(s[lo])
    ELSE SumWidths(s, lo, (lo + hi) \div 2) + SumWidths(s, (lo + hi) \div 2 + 1, hi)

\* c.stringWidth(s, "Times-Roman", 11), in milli-points
stringWidth(s) == SumWidths(s, 1, Len(s)) * FontSize

\* right_margin - left_margin, in milli-points
LineWidth == (right_margin - left_margin) \div 1000

\* str.split(): the maximal runs of non-whitespace characters
RECURSIVE SplitWords(_)
SplitWords(s) ==
    LET t == Strip(s)
    IN  IF t = <<>> THEN <<>>
        ELSE IF \A k \in 1..Len(t) : t[k] \notin Whitespace THEN <<t>>
        ELSE LET gap == CHOOSE k \in 1..Len(t) :
                            t[k] \in Whitespace
                            /\ \A j \in 1..(k - 1) : t[j] \notin Whitespace
             IN  <<SubSeq(t, 1, gap - 1)>>
                 \o SplitWords(SubSeq(t, gap + 1, Len(t)))

\* The state the inner loops thread along: cursor, page, drawn lines
Draw(st, text) ==
    [y |-> st.y - LineHeight, page |-> st.page,
     drawn |-> Append(st.drawn, [page |-> st.page, y |-> st.y, text |-> text])]

\* lines 288-291 and 302-305
NewPageIfNeeded(st) ==
    IF st.y < PageBreakThreshold
    THEN [y |-> top_margin, page |-> st.page + 1, drawn |-> st.drawn]
    ELSE st

\* lines 275-291: the word loop over words[lo..hi], by halves; acc holds
\* current_line and the drawing state.  The second half starts from the
\* value the first half ended with (a canvas is always on a page, so the
\* test only fixes the order of evaluation).
RECURSIVE WrapWords(_, _, _, _), WrapOn(_, _, _, _)
WrapOn(words, lo, hi, acc) ==
    IF acc.st.page >= 1 THEN WrapWords(words, lo, hi, acc) ELSE acc

WrapWords(words, lo, hi, acc) ==
    IF lo > hi THEN acc
    ELSE IF lo = hi
         THEN LET word == words[lo]
                  test_line == IF acc.current_line # <<>>
                               THEN acc.current_line \o <<" ">> \o word ELSE word
              IN  IF stringWidth(test_line) <= LineWidth
                  THEN [current_line |-> test_line, st |-> acc.st]
                  ELSE [current_line |-> word,
                        st |-> NewPageIfNeeded(Draw(acc.st, acc.current_line))]
    ELSE WrapOn(words, (lo + hi) \div 2 + 1, hi,
                WrapWords(words, lo, (lo + hi) \div 2, acc))

\* lines 293-296: the remaining text of the line
DrawRemaining(acc) ==
    IF acc.current_line # <<>> THEN Draw(acc.st, acc.current_line) ELSE acc.st

\* lines 271-296: one non-blank line
DrawLine(words, st) ==
    DrawRemaining(WrapWords(words, 1, Len(words), [current_line |-> <<>>, st |-> st]))

\* lines 265-296: the lines lines[lo..hi] of one paragraph, by halves, the
\* second half starting from the state the first half ended in
RECURSIVE DrawLines(_, _, _, _), DrawOn(_, _, _, _)
DrawOn(lines, lo, hi, st) ==
    IF st.page >= 1 THEN DrawLines(lines, lo, hi, st) ELSE st

DrawLines(lines, lo, hi, st) ==
    IF lo > hi THEN st
    ELSE IF lo = hi
         THEN IF Strip(lines[lo]) = <<>>
              THEN [y |-> st.y - BlankLineDrop, page |-> st.page, drawn |-> st.drawn]
              ELSE DrawLine(SplitWords(Strip(lines[lo])), st)
    ELSE DrawOn(lines, (lo + hi) \div 2 + 1, hi,
                DrawLines(lines, lo, (lo + hi) \div 2, st))

\* the cursor moved down by the paragraph gap of line 299
AfterGap(st) == [y |-> st.y - ParaGap, page |-> st.page, drawn |-> st.drawn]

\* lines 257-305: one iteration of the paragraph loop
DrawParagraph(para, st) ==
    IF Strip(para) = <<>> THEN AfterGap(st)
    ELSE NewPageIfNeeded(AfterGap(DrawLines(Split(para, NL), 1,
                                            Len(Split(para, NL)), st)))

----------------------------------------------------------------------------
(* pdf.py: create_pdf_advanced as a state machine                          *)

NoFailure == <<>>
CanvasError == <<"canvas error">>

AdvState == [y |-> y_position, page |-> page, drawn |-> drawn]

\* lines 223-255: canvas, metadata, margins, cursor, font, split
AdvStart ==
    /\ advPc = "start"
    /\ advParas' = Split(rawText, BlankLine)
    /\ advIdx' = 0
    /\ y_position' = top_margin
    /\ page' = 1
    /\ drawn' = <<>>
    /\ advPc' = "loop"
    /\ UNCHANGED <<entry, rawText, cover_letter_text, pdfPc, pdfLocals,
                   pdfResult, advResult, advFailure, genVars, appVars>>

\* lines 257-305: one paragraph drawn
AdvStep ==
    /\ advPc = "loop"
    /\ advIdx < Len(advParas)
    /\ LET after == DrawParagraph(advParas[advIdx + 1], AdvState)
       IN  /\ y_position' = after.y
           /\ page' = after.page
           /\ drawn' = after.drawn
    /\ advIdx' = advIdx + 1
    /\ UNCHANGED <<entry, rawText, cover_letter_text, pdfPc, pdfLocals,
                   pdfResult, advPc, advParas, advResult, advFailure, genVars, appVars>>

\* lines 307-313: c.save(), the buffer's bytes are returned
AdvSave ==
    /\ advPc = "loop"
    /\ advIdx = Len(advParas)
    /\ advResult' = Returned(PdfBytes("canvas", drawn))
    /\ advPc' = "done"
    /\ UNCHANGED <<entry, rawText, cover_letter_text, pdfPc, pdfLocals,
                   pdfResult, advLocals, advFailure, genVars, appVars>>

\* AdvFail with the handler of line 315 re-raising instead of falling back
AdvFailPropagates ==
    /\ advPc \in {"start", "loop"}
    /\ advFailure' = CanvasError
    /\ advResult' = Raised(CanvasError)
    /\ advPc' = "done"
    /\ advParas' = <<>>
    /\ advIdx' = 0
    /\ y_position' = top_margin
    /\ page' = 1
    /\ drawn' = <<>>
    /\ UNCHANGED <<entry, rawText, cover_letter_text, pdfPc, pdfLocals,
                   pdfResult, genVars, appVars>>

\* lines 315-317: anything in the try block raised; the handler calls
\* create_pdf(cover_letter_text).  The canvas and the cursor are abandoned.
AdvFail ==
    /\ advPc \in {"start", "loop"}
    /\ advFailure' = CanvasError
    /\ cover_letter_text' = rawText
    /\ pdfPc' = "start"
    /\ advPc' = "fallback"
    /\ advParas' = <<>>
    /\ advIdx' = 0
    /\ y_position' = top_margin
    /\ page' = 1
    /\ drawn' = <<>>
    /\ UNCHANGED <<entry, rawText, pdfLocals, pdfResult, advResult, genVars, appVars>>

\* line 317: return create_pdf(...) -- its bytes, or its exception
AdvFallbackReturn ==
    /\ advPc = "fallback"
    /\ pdfPc = "done"
    /\ advResult' = pdfResult
    /\ advPc' = "done"
    /\ UNCHANGED <<entry, rawText, cover_letter_text, pdfPc, pdfLocals,
                   pdfResult, advLocals, advFailure, genVars, appVars>>

----------------------------------------------------------------------------
(* prompt.py: json.loads as used on the model's text (line 354)            *)
(*                                                                         *)
(* A recursive-descent reading of the JSON grammar: objects, arrays,       *)
(* strings with the one-letter escapes, integers and the three literals.   *)
(* Fractions, exponents and \u escapes are read as errors; the texts the   *)
(* model is run on contain none.  A parsed value is summarised by its      *)
(* kind, the decoded text of a string, and, for an object, whether it has  *)
(* the key "cover_letter" and what that key's (last) value is.             *)

JsonWhitespace == {" ", "\t", "\n", "\r"}
ControlChars == {"\n", "\t", "\r"}
CoverLetterKey == <<"c","o","v","e","r","_","l","e","t","t","e","r">>

ParseFail == [ok |-> FALSE, end |-> 0, kind |-> "", text |-> <<>>,
              has |-> FALSE, clKind |-> "", clText |-> <<>>]
Parsed(end, kind, text) == [ok |-> TRUE, end |-> end, kind |-> kind, text |-> text,
                            has |-> FALSE, clKind |-> "", clText |-> <<>>]

\* the first position at or after pos that holds no JSON whitespace
SkipWs(s, pos) ==
    IF \A k \in pos..Len(s) : s[k] \in JsonWhitespace THEN Len(s) + 1
    ELSE CHOOSE q \in pos..Len(s) :
             s[q] \notin JsonWhitespace /\ \A j \in pos..(q - 1) : s[j] \in JsonWhitespace

Unescape(e) ==
    CASE e = "n" -> "\n"
      [] e = "t" -> "\t"
      [] e = "r" -> "\r"
      [] e = "b" -> "<BS>"
      [] e = "f" -> "\f"
      [] OTHER -> e

\* the first position at or after pos holding a quote, a backslash or a
\* control character; Len(s) + 1 when there is none
NextSpecial(s, pos) ==
    LET special == {"\"", "\\"} \cup ControlChars
    IN  IF \A k \in pos..Len(s) : s[k] \notin special THEN Len(s) + 1
        ELSE CHOOSE q \in pos..Len(s) :
                 s[q] \in special /\ \A j \in pos..(q - 1) : s[j] \notin special

\* the body of a string, from the position after its opening quote; acc is
\* the text decoded so far
RECURSIVE ScanString(_, _, _)
ScanString(s, pos, acc) ==
    LET q == NextSpecial(s, pos)
        plain == acc \o SubSeq(s, pos, q - 1)
    IN  IF q > Len(s) THEN ParseFail
        ELSE IF s[q] = "\"" THEN Parsed(q + 1, "str", plain)
        ELSE IF s[q] = "\\"
             THEN IF q + 1 <= Len(s) /\ s[q + 1] \in {"\"", "\\", "/", "n", "t", "r", "b", "f"}
                  THEN ScanString(s, q + 2, Append(plain, Unescape(s[q + 1])))
                  ELSE ParseFail
        ELSE ParseFail

\* the position after the run of digits that starts at pos
DigitsEnd(s, pos) ==
    IF \A k \in pos..Len(s) : s[k] \in Digits THEN Len(s) + 1
    ELSE CHOOSE q \in pos..Len(s) :
             s[q] \notin Digits /\ \A j \in pos..(q - 1) : s[j] \in Digits

ParseNumber(s, pos) ==
    LET from == IF s[pos] = "-" THEN pos + 1 ELSE pos
    IN  IF from > Len(s) \/ s[from] \notin Digits THEN ParseFail
        ELSE IF s[from] = "0" THEN Parsed(from + 1, "num", <<>>)
        ELSE Parsed(DigitsEnd(s, from), "num", <<>>)

RECURSIVE ParseValue(_, _)
RECURSIVE ParseMembers(_, _, _, _)
RECURSIVE ParseItems(_, _, _)

\* sofar with the member key: val put in, as a dict assignment does
WithMember(sofar, key, val) ==
    IF key.text = CoverLetterKey
    THEN [sofar EXCEPT !.has = TRUE, !.clKind = val.kind, !.clText = val.text]
    ELSE sofar

\* after a member, next being the first non-blank position behind it
MemberEnd(s, next, now) ==
    IF next > Len(s) THEN ParseFail
    ELSE IF s[next] = "}" THEN [now EXCEPT !.end = next + 1]
    ELSE IF s[next] = "," THEN ParseMembers(s, SkipWs(s, next + 1), FALSE, now)
    ELSE ParseFail

MemberValue(s, key, val, sofar) ==
    IF ~val.ok THEN ParseFail
    ELSE MemberEnd(s, SkipWs(s, val.end), WithMember(sofar, key, val))

MemberColon(s, key, colon, sofar) ==
    IF ~key.ok \/ colon > Len(s) THEN ParseFail
    ELSE IF s[colon] # ":" THEN ParseFail
    ELSE MemberValue(s, key, ParseValue(s, SkipWs(s, colon + 1)), sofar)

MemberKey(s, key, sofar) ==
    IF ~key.ok THEN ParseFail
    ELSE MemberColon(s, key, SkipWs(s, key.end), sofar)

\* the members of an object, pos being at the first non-blank after "{" or ","
ParseMembers(s, pos, first, sofar) ==
    IF pos > Len(s) THEN ParseFail
    ELSE IF first /\ s[pos] = "}"
         THEN [sofar EXCEPT !.end = pos + 1]
    ELSE IF s[pos] # "\"" THEN ParseFail
    ELSE MemberKey(s, ScanString(s, pos + 1, <<>>), sofar)

ItemEnd(s, next) ==
    IF next > Len(s) THEN ParseFail
    ELSE IF s[next] = "]" THEN Parsed(next + 1, "list", <<>>)
    ELSE IF s[next] = "," THEN ParseItems(s, SkipWs(s, next + 1), FALSE)
    ELSE ParseFail

ItemValue(s, val) ==
    IF ~val.ok THEN ParseFail ELSE ItemEnd(s, SkipWs(s, val.end))

\* the items of an array, pos being at the first non-blank after "[" or ","
ParseItems(s, pos, first) ==
    IF pos > Len(s) THEN ParseFail
    ELSE IF first /\ s[pos] = "]" THEN Parsed(pos + 1, "list", <<>>)
    ELSE ItemValue(s, ParseValue(s, pos))

ParseValue(s, pos) ==
    IF pos > Len(s) THEN ParseFail
    ELSE IF s[pos] = "\"" THEN ScanString(s, pos + 1, <<>>)
    ELSE IF s[pos] = "{"
         THEN ParseMembers(s, SkipWs(s, pos + 1), TRUE, Parsed(0, "dict", <<>>))
    ELSE IF s[pos] = "[" THEN ParseItems(s, SkipWs(s, pos + 1), TRUE)
    ELSE IF s[pos] \in Digits \cup {"-"} THEN ParseNumber(s, pos)
    ELSE IF OccursAt(s, <<"n","u","l","l">>, pos) THEN Parsed(pos + 4, "lit", <<>>)
    ELSE IF OccursAt(s, <<"t","r","u","e">>, pos) THEN Parsed(pos + 4, "lit", <<>>)
    ELSE IF OccursAt(s, <<"f","a","l","s","e">>, pos) THEN Parsed(pos + 5, "lit", <<>>)
    ELSE ParseFail

\* the whole text is one value with blanks around it
WholeText(s, val) ==
    IF val.ok /\ SkipWs(s, val.end) > Len(s) THEN val ELSE ParseFail

\* json.loads: one value, blanks allowed around it, nothing after it
json_loads(s) == WholeText(s, ParseValue(s, SkipWs(s, 1)))

----------------------------------------------------------------------------
(* prompt.py: the clean-up of the model's text (lines 351-388)             *)

KeyPattern == <<"\"">> \o CoverLetterKey \o <<"\"", ":">>
MinLetterLen == 100

\* a Python value that is a str, and one that is not
StrValue(text) == [isStr |-> TRUE, text |-> text]
NonStrValue == [isStr |-> FALSE, text |-> <<>>]

\* AfterJson that never decodes: the text is kept as the model sent it
AfterJson_NoDecode(txt) == [hasGet |-> TRUE, value |-> StrValue(txt)]

\* lines 353-358: cover_letter as bound by the try/except; hasGet is FALSE
\* when j_ is no dict, so that j_.get raises AttributeError
AfterJson(txt) ==
    LET j == json_loads(txt)
    IN  IF ~j.ok THEN [hasGet |-> TRUE, value |-> StrValue(txt)]
        ELSE IF j.kind # "dict" THEN [hasGet |-> FALSE, value |-> NonStrValue]
        ELSE IF ~j.has THEN [hasGet |-> TRUE, value |-> StrValue(txt)]
        ELSE IF j.clKind = "str" THEN [hasGet |-> TRUE, value |-> StrValue(j.clText)]
        ELSE [hasGet |-> TRUE, value |-> NonStrValue]

\* lines 361-376: the quoted value after "cover_letter": in text that still
\* starts with a brace
ExtractMalformed(cl) ==
    IF ~StartsWith(Strip(cl), <<"{">>) THEN cl
    ELSE IF ~Contains(cl, KeyPattern) THEN cl
    ELSE LET start == Find(cl, KeyPattern) + Len(KeyPattern)
             temp == Strip(SubSeq(cl, start + 1, Len(cl)))
         IN  IF ~StartsWith(temp, <<"\"">>) THEN cl
             ELSE LET rest == Tail(temp)
                      end == RFind(rest, <<"\"">>)
                  IN  IF end > 0 THEN SubSeq(rest, 1, end) ELSE cl

\* line 379
StripArtifacts(cl) ==
    Strip(StripChars(StripChars(StripChars(Strip(cl), {"{"}), {"}"}), {"\""}))

\* lines 361-382
Cleaned(cl) == Strip(StripArtifacts(ExtractMalformed(cl)))

\* an exception: its Python type and str(e) as a sequence of pieces
Exc(type, msg) == [kind |-> "raise", type |-> type, value |-> <<>>, msg |-> msg]
Ret(text) == [kind |-> "return", type |-> "", value |-> text, msg |-> <<>>]
Pending == [kind |-> "none", type |-> "", value |-> <<>>, msg |-> <<>>]

\* no reply of the model has been read
NoReply == [form |-> "", inner |-> <<>>]

----------------------------------------------------------------------------
(* main.py: validation (lines 6-58)                                        *)
(*                                                                         *)
(* A Python value is summarised by its type, its len() and, for a dict,    *)
(* its keys.  A resume is a function from the keys it has to such values.  *)

required_fields == <<"experience", "skills", "project", "contacts">>
JobMinLen == 50

NoError == <<>>

\* a job description that is a str
JobText(t) == [type |-> "str", len |-> Len(t), text |-> t]

\* validate_resume with the e-mail test of lines 40-41 left out
validate_resume_NoEmailTest(r) ==
    LET missing_fields == SelectSeq(required_fields, LAMBDA f : f \notin DOMAIN r)
    IN  IF missing_fields # <<>>
        THEN <<"Missing required fields: ">> \o missing_fields
        ELSE IF r["experience"].type # "list" \/ r["experience"].len = 0
             THEN <<"'experience' must be a non-empty array">>
        ELSE IF r["skills"].type # "list" \/ r["skills"].len = 0
             THEN <<"'skills' must be a non-empty array">>
        ELSE IF r["project"].type # "list" \/ r["project"].len = 0
             THEN <<"'project' must be a non-empty array">>
        ELSE IF r["contacts"].type # "dict" \/ r["contacts"].len = 0
             THEN <<"'contacts' must be a non-empty object">>
        ELSE NoError

\* validate_resume: the message of the ValueError raised, NoError when none
validate_resume(r) ==
    LET missing_fields == SelectSeq(required_fields, LAMBDA f : f \notin DOMAIN r)
    IN  IF missing_fields # <<>>
        THEN <<"Missing required fields: ">> \o missing_fields
        ELSE IF r["experience"].type # "list" \/ r["experience"].len = 0
             THEN <<"'experience' must be a non-empty array">>
        ELSE IF r["skills"].type # "list" \/ r["skills"].len = 0
             THEN <<"'skills' must be a non-empty array">>
        ELSE IF r["project"].type # "list" \/ r["project"].len = 0
             THEN <<"'project' must be a non-empty array">>
        ELSE IF r["contacts"].type # "dict" \/ r["contacts"].len = 0
             THEN <<"'contacts' must be a non-empty object">>
        ELSE IF "email" \notin r["contacts"].keys
             THEN <<"'contacts' must include at least an 'email' field">>
        ELSE NoError

\* validate_job_description: the message of the ValueError raised, if any
validate_job_description(jd) ==
    IF jd.len = 0 \/ jd.type # "str"
    THEN <<"Job description must be a non-empty string">>
    ELSE IF Len(Strip(jd.text)) < JobMinLen
         THEN <<"Job description seems too short (minimum 50 characters)">>
    ELSE NoError

----------------------------------------------------------------------------
(* prompt.py and main.py: the exception handlers                           *)

HasPiece(msg, piece) == \E k \in 1..Len(msg) : msg[k] = piece

\* the handler of generate_cover_letter_with_ai re-raising what it caught
AiHandler_Reraise(e) == e

\* prompt.py lines 390-402: every exception of the try block becomes a
\* plain Exception whose message embeds str(e)
AiHandler(e) ==
    IF HasPiece(e.msg, "ValidationException")
    THEN Exc("Exception", <<"Validation error: ">> \o e.msg)
    ELSE IF HasPiece(e.msg, "ThrottlingException")
    THEN Exc("Exception", <<"Rate limit exceeded. Please try again in a moment: ">> \o e.msg)
    ELSE IF HasPiece(e.msg, "ModelTimeoutException")
    THEN Exc("Exception", <<"Model timeout. Please try again: ">> \o e.msg)
    ELSE IF HasPiece(e.msg, "ServiceQuotaExceededException")
    THEN Exc("Exception", <<"Service quota exceeded: ">> \o e.msg)
    ELSE Exc("Exception", <<"AWS Bedrock API error: ">> \o e.msg)

\* main.py lines 90-95: a ValueError is re-raised as it is, anything else
\* is wrapped
MainHandler(e) ==
    IF e.type = "ValueError" THEN e
    ELSE Exc("Exception", <<"Failed to generate cover letter: ">> \o e.msg)

\* CleanupOutcome with the length test of line 385 off by one
CleanupOutcome_OffByOne(txt) ==
    LET got == AfterJson(txt)
    IN  IF ~got.hasGet THEN Exc("AttributeError", <<"object has no attribute 'get'">>)
        ELSE IF ~got.value.isStr
             THEN Exc("AttributeError", <<"object has no attribute 'strip'">>)
        ELSE IF Len(Cleaned(got.value.text)) < MinLetterLen - 1
             THEN Exc("Exception", <<"Generated cover letter is too short">>)
        ELSE Ret(Cleaned(got.value.text))

\* lines 351-388: what the body of the try block does with the model's text
CleanupOutcome(txt) ==
    LET got == AfterJson(txt)
    IN  IF ~got.hasGet THEN Exc("AttributeError", <<"object has no attribute 'get'">>)
        ELSE IF ~got.value.isStr
             THEN Exc("AttributeError", <<"object has no attribute 'strip'">>)
        ELSE IF Len(Cleaned(got.value.text)) < MinLetterLen
             THEN Exc("Exception", <<"Generated cover letter is too short">>)
        ELSE Ret(Cleaned(got.value.text))

----------------------------------------------------------------------------
(* main.py and prompt.py: generate_cover_letter as a state machine         *)

MainMinLen == 100

\* what bedrock.invoke_model, or the reading of its response at lines
\* 348-349, can raise
UpstreamFailures ==
    {Exc("ClientError", <<"An error occurred (", kind, ") when calling InvokeModel">>) :
        kind \in {"ValidationException", "ThrottlingException", "ModelTimeoutException",
                  "ServiceQuotaExceededException", "AccessDeniedException"}}
    \cup {Exc("ValueError", <<"Expecting value: line 1 column 1 (char 0)">>),
          Exc("KeyError", <<"'content'">>)}

ClientFailure ==
    Exc("Exception", <<"Failed to initialize AWS Bedrock client: ",
                       "AWS credentials not found in .env file">>)

\* the escapes of s[lo..hi] as a JSON encoder writes them, by halves
RECURSIVE JsonEscape(_, _, _)
JsonEscape(s, lo, hi) ==
    IF lo > hi THEN <<>>
    ELSE IF lo = hi
         THEN CASE s[lo] = "\"" -> <<"\\", "\"">>
                [] s[lo] = "\\" -> <<"\\", "\\">>
                [] s[lo] = "\n" -> <<"\\", "n">>
                [] s[lo] = "\t" -> <<"\\", "t">>
                [] OTHER -> <<s[lo]>>
    ELSE JsonEscape(s, lo, (lo + hi) \div 2) \o JsonEscape(s, (lo + hi) \div 2 + 1, hi)

Quote == <<"\"">>
OtherKey == <<"l","e","t","t","e","r">>

\* the text the model sends for a letter inner, in each of the shapes it
\* is known to use
ReplyText(form, inner) ==
    CASE form = "envelope" ->
            <<"{">> \o Quote \o CoverLetterKey \o Quote \o <<":", " ">>
            \o Quote \o JsonEscape(inner, 1, Len(inner)) \o Quote \o <<"}">>
      [] form = "pretty" ->
            <<"{", "\n", " ", " ", " ", " ">> \o Quote \o CoverLetterKey \o Quote
            \o <<":", " ">> \o Quote \o JsonEscape(inner, 1, Len(inner)) \o Quote
            \o <<"\n", "}">>
      [] form = "raw" ->
            <<"{">> \o Quote \o CoverLetterKey \o Quote \o <<":", " ">>
            \o Quote \o inner \o Quote \o <<"}">>
      [] form = "other_key" ->
            <<"{">> \o Quote \o OtherKey \o Quote \o <<":", " ">>
            \o Quote \o JsonEscape(inner, 1, Len(inner)) \o Quote \o <<"}">>
      [] OTHER -> inner

\* lines 76-79 and 90-92 of main.py
MainValidate ==
    /\ genPc = "start"
    /\ LET bad_resume == validate_resume(resume)
           bad_job == validate_job_description(job_description)
       IN  IF bad_resume # NoError
           THEN /\ mainResult' = MainHandler(Exc("ValueError", bad_resume))
                /\ genPc' = "done"
           ELSE IF bad_job # NoError
           THEN /\ mainResult' = MainHandler(Exc("ValueError", bad_job))
                /\ genPc' = "done"
           ELSE /\ mainResult' = mainResult
                /\ genPc' = "ai"
    /\ UNCHANGED <<resume, job_description, upstream, invoked, content,
                   cover_letter, aiResult, pdfVars, appVars>>

\* prompt.py line 302: no client, nothing is sent
AiClientFails ==
    /\ genPc = "ai"
    /\ aiResult' = AiHandler(ClientFailure)
    /\ genPc' = "ai_done"
    /\ UNCHANGED <<resume, job_description, upstream, invoked, content,
                   cover_letter, mainResult, pdfVars, appVars>>

\* prompt.py lines 322-349: the call is made and it, or the reading of
\* its response, raises
AiInvokeRaises ==
    /\ genPc = "ai"
    /\ invoked' = TRUE
    /\ \E e \in UpstreamFailures : aiResult' = AiHandler(e)
    /\ genPc' = "ai_done"
    /\ UNCHANGED <<resume, job_description, upstream, content,
                   cover_letter, mainResult, pdfVars, appVars>>

\* prompt.py lines 351-402: the clean-up, the length test and the handler
AiCleanup ==
    /\ genPc = "cleanup"
    /\ LET got == AfterJson(content)
           outcome == CleanupOutcome(content)
       IN  /\ cover_letter' = IF got.hasGet /\ got.value.isStr
                              THEN Cleaned(got.value.text) ELSE <<>>
           /\ aiResult' = IF outcome.kind = "raise" THEN AiHandler(outcome) ELSE outcome
    /\ genPc' = "ai_done"
    /\ UNCHANGED <<resume, job_description, upstream, invoked, content,
                   mainResult, pdfVars, appVars>>

\* main.py lines 83-95
MainFinish ==
    /\ genPc = "ai_done"
    /\ mainResult' =
          IF aiResult.kind = "raise" THEN MainHandler(aiResult)
          ELSE IF aiResult.value = <<>> \/ Len(Strip(aiResult.value)) < MainMinLen
               THEN MainHandler(Exc("Exception",
                                    <<"Generated cover letter is too short or empty">>))
          ELSE Ret(aiResult.value)
    /\ genPc' = "done"
    /\ UNCHANGED <<resume, job_description, upstream, invoked, content,
                   cover_letter, aiResult, pdfVars, appVars>>

----------------------------------------------------------------------------
(* Input texts of the renderers                                            *)

MaxParas == 4
MaxAdvParas == 2

P_Dear == DearPrefix \o <<" ", "A", ",">>
P_Closing == SincerelyPrefix \o <<",", "\n", "A", "n", "n">>
P_Prose == <<"I", " ", "c", "o", "d", "e", ".", "\n", "A", " ", "l", "o", "t">>
P_Date == <<"M", "a", "y", " ", "5">>
P_DearMail == DearPrefix \o <<" ", "a", "@", "b">>
P_Plain == <<"x">>

\* letters made of short paragraphs, blank ones included, in every order
FlowPool == {P_Dear, P_Closing, P_Prose, P_Date, P_DearMail, <<>>}
FlowSeqs(n) == UNION {[1..m -> FlowPool] : m \in 1..n}

\* one paragraph built from a prefix, a contact token, a month, an internal
\* line break (with a whitespace-only line) and padding up to a length that
\* sits on either side of the two length limits
ShapePrefixes == {<<>>, DearPrefix \o <<" ">>, SincerelyPrefix \o <<" ">>,
                  SubjectPrefix \o <<" ">>}
ContactTokens == {<<>>, <<"a", "@", "b", " ">>, <<"(", "5", " ">>,
                  <<"W", "W", "W", ".", "a", " ">>, <<"5", " ">>}
MonthTokens == {<<>>, <<"M", "a", "r", "c", "h", " ">>}
BreakTokens == {<<>>, <<"y", "\n", " ", "\n", "z", " ">>}
PadTargets == {0, DateMaxLen - 1, DateMaxLen, EmployerMaxLen - 1, EmployerMaxLen}

Shape(pre, c, m, b, target) ==
    LET base == pre \o c \o m \o b
    IN  IF target > Len(base) THEN base \o Rep("x", target - Len(base)) ELSE base

ShapePool ==
    {Shape(pre, c, m, b, t) : pre \in ShapePrefixes, c \in ContactTokens,
                              m \in MonthTokens, b \in BreakTokens, t \in PadTargets}

ShapeSeqs ==
    UNION {{<<q>>, <<q, P_Dear>>, <<P_Plain, q, P_Dear>>, <<P_Dear, q, P_Closing>>,
            <<<<>>, q>>} : q \in ShapePool}

PdfTexts == {Join(ps, BlankLine) : ps \in FlowSeqs(MaxParas) \cup ShapeSeqs}

\* texts long enough to fill a page: one paragraph of n one-word lines, and
\* one line of n words each wider than half the line, so that every word
\* wraps
MaxLines == 52
WideWord == Rep("W", 30)
PageTexts ==
    {Join([k \in 1..n |-> <<"a">>], NL) : n \in {MaxLines - 1, MaxLines}}
    \cup {Join([k \in 1..n |-> WideWord], <<" ">>) : n \in {MaxLines - 1, MaxLines}}

AdvTexts == {Join(ps, BlankLine) : ps \in FlowSeqs(MaxAdvParas)} \cup PageTexts

----------------------------------------------------------------------------
(* app.py: the values of the session state (lines 43-47)                   *)

\* a session entry is None or holds a value
NoneText == [isNone |-> TRUE, value |-> <<>>]
SomeText(t) == [isNone |-> FALSE, value |-> t]
NonePdf == [isNone |-> TRUE, value |-> NoBytes]
SomePdf(b) == [isNone |-> FALSE, value |-> b]

\* the renderers and generate_cover_letter called on their own: no app runs
AppOff ==
    /\ appPc = "off"
    /\ resume_data = <<>>
    /\ text_area = <<>>
    /\ session_cover_letter = NoneText
    /\ session_pdf_bytes = NonePdf
    /\ rendered_from = NoneText
    /\ message = "none"

----------------------------------------------------------------------------
(* The renderers' specification                                            *)

GenIdle ==
    /\ resume = <<>>
    /\ job_description = JobText(<<>>)
    /\ genPc = "idle"
    /\ upstream = NoReply
    /\ invoked = FALSE
    /\ content = <<>>
    /\ cover_letter = <<>>
    /\ aiResult = Pending
    /\ mainResult = Pending

PdfInit ==
    /\ entry \in {"create_pdf", "create_pdf_advanced"}
    /\ rawText \in (IF entry = "create_pdf" THEN PdfTexts ELSE AdvTexts)
    /\ cover_letter_text = (IF entry = "create_pdf" THEN rawText ELSE <<>>)
    /\ pdfPc = (IF entry = "create_pdf" THEN "start" ELSE "idle")
    /\ paragraphs = <<>>
    /\ idx = 0
    /\ greeting_found = FALSE
    /\ closing_found = FALSE
    /\ elements = <<>>
    /\ roleLog = <<>>
    /\ buffer = NoBytes
    /\ pdfResult = NoResult
    /\ advPc = (IF entry = "create_pdf_advanced" THEN "start" ELSE "idle")
    /\ advParas = <<>>
    /\ advIdx = 0
    /\ y_position = top_margin
    /\ page = 1
    /\ drawn = <<>>
    /\ advResult = NoResult
    /\ advFailure = NoFailure

Init == PdfInit /\ GenIdle /\ AppOff

Next ==
    \/ CreatePdfStart
    \/ CreatePdfStep
    \/ CreatePdfStepFail
    \/ CreatePdfBuild
    \/ CreatePdfBuildFail
    \/ AdvStart
    \/ AdvStep
    \/ AdvSave
    \/ AdvFail
    \/ AdvFallbackReturn

Spec == Init /\ [][Next]_vars

----------------------------------------------------------------------------
(* Vocabulary of the claims about create_pdf, stated on the text alone     *)

\* the k-th paragraph of the split text (k = 1 is index 0), trimmed
P(k) == Strip(paragraphs[k])

Visited == 1..Len(roleLog)

\* the loop of create_pdf has handled every paragraph and build comes next;
\* the log then holds the branch of every paragraph of the text
LoopFinished == pdfPc = "loop" /\ idx = Len(paragraphs)
RoleOf(k) == roleLog[k].role

\* the elements appended while paragraph k was handled
ElementsOf(k) ==
    SubSeq(elements, roleLog[k].at + 1,
           IF k < Len(roleLog) THEN roleLog[k + 1].at ELSE Len(elements))

BeginsWith(t, word) ==
    Len(t) >= Len(word) /\ \A b \in 1..Len(word) : t[b] = word[b]
Mentions(t, word) ==
    \E a \in 0..(Len(t) - Len(word)) : \A b \in 1..Len(word) : t[a + b] = word[b]
MentionsMonth(t) == \E m \in Months : Mentions(t, m)
HasEmail(t) == \E a \in 1..Len(t) : t[a] = "@"
HasPhone(t) ==
    /\ \E a \in 1..Len(t) : t[a] \in Digits
    /\ \E a \in 1..Len(t) : t[a] \in {"-", "("}
HasUrl(t) == Mentions(Lower(t), Http) \/ Mentions(Lower(t), Www)
HeaderPattern(t) == HasEmail(t) \/ HasPhone(t) \/ HasUrl(t)
HasLineBreak(t) == \E a \in 1..Len(t) : t[a] = "\n"
ShortMonth(t) == MentionsMonth(t) /\ Len(t) < 50

\* d is a "Dear" paragraph, s a later "Sincerely" paragraph, and no
\* paragraph between them begins with "Sincerely"
DearThenSincerely(d, s) ==
    /\ d < s
    /\ BeginsWith(P(d), DearPrefix)
    /\ BeginsWith(P(s), SincerelyPrefix)
    /\ \A k \in (d + 1)..(s - 1) : ~BeginsWith(P(k), SincerelyPrefix)

\* the texts of the body-styled elements, in order
BodyTexts(es) ==
    LET bodies == SelectSeq(es, LAMBDA e : e.style = "body_style")
    IN  [k \in 1..Len(bodies) |-> bodies[k].text]

RECURSIVE BodySources(_)
\* the paragraphs logged as Body among the first n, line breaks spaced, in order
BodySources(n) ==
    IF n = 0 THEN <<>>
    ELSE BodySources(n - 1)
         \o (IF RoleOf(n) = "Body"
             THEN <<[a \in 1..Len(P(n)) |-> IF P(n)[a] = "\n" THEN " " ELSE P(n)[a]]>>
             ELSE <<>>)

----------------------------------------------------------------------------
(* C1 *)

\* C1 as stated: whenever a paragraph beginning with "Dear" is followed by N
\* paragraphs not beginning with "Sincerely" and then by one beginning with
\* "Sincerely", each of the N (non-empty) paragraphs is rendered as Body.
C1_AsStated ==
    LoopFinished =>
    \A d \in Visited : \A s \in Visited :
        DearThenSincerely(d, s) =>
            \A k \in (d + 1)..(s - 1) : P(k) # <<>> => RoleOf(k) = "Body"

\* C1, amended: when the "Dear" paragraph is itself classified Greeting and no
\* Closing was classified before it, then of the paragraphs up to the
\* "Sincerely" paragraph exactly those of the N that are non-empty and match
\* none of the Date, Subject and Greeting rules are rendered as Body; and the
\* body-styled elements are the Body paragraphs in their original order.
C1_BodyBetweenGreetingAndClosing ==
    LoopFinished =>
    /\ \A d \in Visited : \A s \in Visited :
          ( /\ DearThenSincerely(d, s)
            /\ RoleOf(d) = "Greeting"
            /\ \A c \in 1..(d - 1) : RoleOf(c) # "Closing" )
          => \A k \in (d + 1)..(s - 1) :
                RoleOf(k) = "Body"
                <=> ( /\ P(k) # <<>>
                      /\ ~ShortMonth(P(k))
                      /\ ~BeginsWith(P(k), SubjectPrefix)
                      /\ ~BeginsWith(P(k), DearPrefix) )
    /\ BodyTexts(elements) = BodySources(Len(roleLog))

\* a finished letter with two Body paragraphs between greeting and closing
C1_Witness ==
    /\ pdfPc = "done"
    /\ pdfResult.kind = "return"
    /\ \E d \in Visited : \E s \in Visited :
          /\ DearThenSincerely(d, s)
          /\ s >= d + 3
          /\ RoleOf(d) = "Greeting"
          /\ \A k \in (d + 1)..(s - 1) : RoleOf(k) = "Body"
          /\ Len(BodyTexts(elements)) = s - d - 1

----------------------------------------------------------------------------
(* C2 *)

\* C2: the paragraph at index 0 is classified Header whenever it contains an
\* "@", whatever else it contains; and it is never Header when it has no "@",
\* no digit together with "-" or "(", and no "http"/"www." (any case).
C2_FirstParagraphHeader ==
    LoopFinished =>
        /\ HasEmail(P(1)) => RoleOf(1) = "Header"
        /\ ~HeaderPattern(P(1)) => RoleOf(1) # "Header"

\* a first paragraph with an "@" that also begins with "Dear" and names a
\* month, classified Header
C2_Witness ==
    /\ Len(roleLog) >= 1
    /\ HasEmail(P(1))
    /\ BeginsWith(P(1), DearPrefix)
    /\ ShortMonth(P(1))
    /\ RoleOf(1) = "Header"

----------------------------------------------------------------------------
(* C3 *)

\* C3 as stated: a paragraph under 50 characters containing a month name is
\* Date at any position, whatever else it contains; one of 50 or more is not.
C3_AsStated ==
    LoopFinished =>
    \A k \in Visited :
        /\ (MentionsMonth(P(k)) /\ Len(P(k)) < 50) => RoleOf(k) = "Date"
        /\ (MentionsMonth(P(k)) /\ Len(P(k)) >= 50) => RoleOf(k) # "Date"

\* C3, amended: as stated, except that the paragraph at index 0 is Header,
\* not Date, when it matches the Header rule.
C3_ShortMonthIsDate ==
    LoopFinished =>
    \A k \in Visited :
        /\ (MentionsMonth(P(k)) /\ Len(P(k)) < 50 /\ ~(k = 1 /\ HeaderPattern(P(k))))
              => RoleOf(k) = "Date"
        /\ (MentionsMonth(P(k)) /\ Len(P(k)) >= 50) => RoleOf(k) # "Date"

\* a 49-character paragraph after the greeting, beginning with "Dear" and
\* holding an "@" and a month, classified Date
C3_Witness ==
    \E k \in Visited :
        /\ k > 1
        /\ Len(P(k)) = 49
        /\ MentionsMonth(P(k))
        /\ HasEmail(P(k))
        /\ BeginsWith(P(k), DearPrefix)
        /\ RoleOf(k) = "Date"

----------------------------------------------------------------------------
(* C4 *)

\* paragraph k comes strictly before the first paragraph beginning with "Dear"
BeforeFirstDear(k) ==
    /\ \E d \in (k + 1)..Len(paragraphs) : BeginsWith(P(d), DearPrefix)
    /\ \A j \in 1..k : ~BeginsWith(P(j), DearPrefix)

\* one info-styled element per line of t that is not blank, trimmed, then a spacer
InfoLines(t) ==
    LET lines == Split(t, NL)
        kept == SelectSeq(lines, LAMBDA l : \E a \in 1..Len(l) : l[a] \notin Whitespace)
    IN  [n \in 1..Len(kept) |->
            [kind |-> "Paragraph", text |-> Strip(kept[n]), style |-> "info_style"]]
        \o <<[kind |-> "Spacer", text |-> <<>>, style |-> "0.4cm"]>>

\* C4 as stated: every paragraph strictly before the first "Dear" paragraph,
\* shorter than 200 characters and containing an internal line break, is
\* classified EmployerInfo.
C4_AsStated ==
    LoopFinished =>
    \A k \in Visited :
        (BeforeFirstDear(k) /\ Len(P(k)) < 200 /\ HasLineBreak(P(k)))
            => RoleOf(k) = "EmployerInfo"

\* C4, amended: such a paragraph is EmployerInfo provided it is not the
\* paragraph at index 0 and matches none of the Date, Subject and Closing
\* rules; it is rendered as one info-styled element per non-blank internal
\* line, followed by a spacer.
C4_EmployerInfoBeforeGreeting ==
    LoopFinished =>
    \A k \in Visited :
        ( /\ BeforeFirstDear(k) /\ Len(P(k)) < 200 /\ HasLineBreak(P(k))
          /\ k > 1
          /\ ~ShortMonth(P(k))
          /\ ~BeginsWith(P(k), SubjectPrefix)
          /\ ~BeginsWith(P(k), SincerelyPrefix) )
        => /\ RoleOf(k) = "EmployerInfo"
           /\ ElementsOf(k) = InfoLines(P(k))

\* a 199-character paragraph with a whitespace-only internal line, before the
\* greeting, classified EmployerInfo
C4_Witness ==
    \E k \in Visited :
        /\ BeforeFirstDear(k)
        /\ Len(P(k)) = 199
        /\ HasLineBreak(P(k))
        /\ RoleOf(k) = "EmployerInfo"
        /\ Len(ElementsOf(k)) = 3
        /\ Len(Split(P(k), NL)) = 3

----------------------------------------------------------------------------
(* C9 *)

\* C9: create_pdf ends in exactly one of two ways: it returns the bytes of the
\* document built from the elements of every paragraph, or it raises one
\* failure wrapped as "Failed to generate PDF: ..."; a failure returns no bytes,
\* whatever the buffer holds by then.  Before it ends it has no outcome.
C9_BytesOrWrappedFailure ==
    /\ pdfPc # "done" => pdfResult.kind = "none"
    /\ pdfPc = "done" =>
          \/ /\ pdfResult.kind = "return"
             /\ pdfResult.error = <<>>
             /\ pdfResult.value.signature = "%PDF"
             /\ pdfResult.value.complete
             /\ pdfResult.value.story = elements
             /\ Len(roleLog) = Len(paragraphs)
          \/ /\ pdfResult.kind = "raise"
             /\ Len(pdfResult.error) = 2
             /\ pdfResult.error[1] = "Failed to generate PDF: "
             /\ pdfResult.value.signature = ""
             /\ pdfResult.value.story = <<>>

\* the page-building step failed with part of the document already in the
\* buffer, and the caller got the wrapped failure
C9_Witness ==
    /\ pdfPc = "done"
    /\ pdfResult.kind = "raise"
    /\ pdfResult.error[2] = "LayoutError"
    /\ buffer.signature = "%PDF"
    /\ ~buffer.complete
    /\ Len(buffer.story) >= 2

----------------------------------------------------------------------------
(* C10 *)

\* C10: once the manual-cursor path of create_pdf_advanced has failed,
\* create_pdf is running or has run on the same text, and what
\* create_pdf_advanced hands its caller is create_pdf's outcome; the failure
\* of the manual-cursor path itself never reaches the caller.
C10_AdvancedFallsBack ==
    /\ advFailure # NoFailure =>
          /\ advPc \in {"fallback", "done"}
          /\ pdfPc # "idle"
          /\ cover_letter_text = rawText
          /\ advPc = "done" => (pdfPc = "done" /\ advResult = pdfResult)
    /\ advResult.kind = "raise" =>
          /\ advResult.error # advFailure
          /\ advResult.error[1] = "Failed to generate PDF: "
    /\ (entry = "create_pdf_advanced" /\ advPc = "done") => advResult.kind # "none"

\* the manual-cursor path failed after drawing had begun and the caller
\* received the primary renderer's document
C10_Witness ==
    /\ advPc = "done"
    /\ advFailure # NoFailure
    /\ advResult.kind = "return"
    /\ advResult.value.producer = "platypus"
    /\ Len(advResult.value.story) >= 2

----------------------------------------------------------------------------
(* Inputs of generate_cover_letter and replies of the model                *)

ListOf(n) == [type |-> "list", len |-> n, keys |-> {}]
DictOf(ks) == [type |-> "dict", len |-> Cardinality(ks), keys |-> ks]
StrOf(n) == [type |-> "str", len |-> n, keys |-> {}]
NoneValue == [type |-> "NoneType", len |-> 0, keys |-> {}]

FieldValues == {ListOf(0), ListOf(1), DictOf({}), DictOf({"phone"}),
                DictOf({"email"}), StrOf(3), NoneValue}

RequiredSet == {required_fields[k] : k \in 1..Len(required_fields)}
Resumes == UNION {[D -> FieldValues] : D \in SUBSET RequiredSet}

JobDescriptions ==
    {[type |-> "NoneType", len |-> 0, text |-> <<>>],
     [type |-> "list", len |-> 1, text |-> <<>>],
     JobText(<<>>),
     JobText(Rep("x", JobMinLen - 1)),
     JobText(Rep("x", JobMinLen)),
     JobText(<<" ">> \o Rep("x", JobMinLen - 1) \o <<"\n">>),
     JobText(<<" ">> \o Rep("x", JobMinLen) \o <<"\n">>)}

LetterBody(n) == P_Dear \o BlankLine \o Rep("x", n - Len(P_Dear) - 2)

LetterEdgesLeft == {<<>>, <<"\"">>, <<"{">>, <<" ">>, <<"\"", "{">>}
LetterEdgesRight == {<<>>, <<"\"">>, <<"}">>, <<"\n">>}

Letters ==
    {l \o LetterBody(n) \o r :
        l \in LetterEdgesLeft, r \in LetterEdgesRight,
        n \in (MinLetterLen - 2)..(MinLetterLen + 1)}

ReplyForms == {"envelope", "pretty", "raw", "other_key", "plain"}

\* replies that are not letters at all
OddReplies ==
    {<<"{">> \o Quote \o CoverLetterKey \o Quote \o <<":", " ", "5", "}">>,
     Quote \o Rep("x", MinLetterLen) \o Quote,
     <<"[">> \o Quote \o Rep("x", MinLetterLen) \o Quote \o <<"]">>,
     <<"{", "}">>}

UpstreamReplies ==
    {[form |-> f, inner |-> l] : f \in ReplyForms, l \in Letters}
    \cup {[form |-> "plain", inner |-> o] : o \in OddReplies}

\* the replies drawn when generate_cover_letter runs under the app: two
\* letters long enough (one in an envelope) and one too short
AppReplies ==
    {[form |-> "plain", inner |-> LetterBody(MinLetterLen)],
     [form |-> "envelope", inner |-> LetterBody(MinLetterLen + 1)],
     [form |-> "plain", inner |-> LetterBody(MinLetterLen - 1)]}

RepliesOffered == IF appPc = "off" THEN UpstreamReplies ELSE AppReplies

\* prompt.py lines 322-349: the call is made and the model's text read
AiInvokeReturns ==
    /\ genPc = "ai"
    /\ invoked' = TRUE
    /\ \E u \in RepliesOffered :
          /\ upstream' = u
          /\ content' = ReplyText(u.form, u.inner)
    /\ genPc' = "cleanup"
    /\ UNCHANGED <<resume, job_description, cover_letter, aiResult,
                   mainResult, pdfVars, appVars>>

PdfIdle ==
    /\ entry = "none"
    /\ rawText = <<>>
    /\ cover_letter_text = <<>>
    /\ pdfPc = "idle"
    /\ paragraphs = <<>>
    /\ idx = 0
    /\ greeting_found = FALSE
    /\ closing_found = FALSE
    /\ elements = <<>>
    /\ roleLog = <<>>
    /\ buffer = NoBytes
    /\ pdfResult = NoResult
    /\ advPc = "idle"
    /\ advParas = <<>>
    /\ advIdx = 0
    /\ y_position = top_margin
    /\ page = 1
    /\ drawn = <<>>
    /\ advResult = NoResult
    /\ advFailure = NoFailure

GenInit ==
    /\ resume \in Resumes
    /\ job_description \in JobDescriptions
    /\ genPc = "start"
    /\ upstream = NoReply
    /\ invoked = FALSE
    /\ content = <<>>
    /\ cover_letter = <<>>
    /\ aiResult = Pending
    /\ mainResult = Pending

InitGen == GenInit /\ PdfIdle /\ AppOff

NextGen ==
    \/ MainValidate
    \/ AiClientFails
    \/ AiInvokeRaises
    \/ AiInvokeReturns
    \/ AiCleanup
    \/ MainFinish

SpecGen == InitGen /\ [][NextGen]_vars

----------------------------------------------------------------------------
(* app.py: script runs over the session state                              *)
(*                                                                         *)
(* A click on a button runs the script once.  The Generate handler calls   *)
(* generate_cover_letter and create_pdf, whose steps are the actions       *)
(* above; appPc says which of the two calls the handler is waiting in.     *)

AppJobMinLen == 50

\* what example_resume.json may hold: a complete resume, and one without
\* skills
AppResumes ==
    {[f \in RequiredSet |-> IF f = "contacts" THEN DictOf({"email"}) ELSE ListOf(1)],
     [f \in RequiredSet \ {"skills"} |->
          IF f = "contacts" THEN DictOf({"email"}) ELSE ListOf(1)]}

\* what the user may type into the job description widget
AppJobTexts ==
    {<<>>, Rep("x", AppJobMinLen - 1),
     <<" ">> \o Rep("x", AppJobMinLen) \o <<"\n">>}

\* lines 93 and 115-119: the Generate button is offered, or a hint is shown
GenerateOffered(t) == t # <<>> /\ Len(Strip(t)) >= AppJobMinLen
Hint(t) ==
    IF GenerateOffered(t) THEN "none"
    ELSE IF t = <<>> THEN "info"
    ELSE "warning"

\* lines 43-47 and 69: first run of the script in a new session
AppInit ==
    /\ appPc = "idle"
    /\ resume_data \in AppResumes
    /\ text_area = <<>>
    /\ session_cover_letter = NoneText
    /\ session_pdf_bytes = NonePdf
    /\ rendered_from = NoneText
    /\ message = "info"

\* lines 85-90: the user changes the job description; the script reruns
AppEditJob ==
    /\ appPc = "idle"
    /\ \E t \in AppJobTexts \ {text_area} :
          /\ text_area' = t
          /\ message' = Hint(t)
    /\ UNCHANGED <<appPc, resume_data, session_cover_letter, session_pdf_bytes,
                   rendered_from, pdfVars, genVars>>

\* lines 93-98: Generate is clicked and generate_cover_letter is called
AppGenerate ==
    /\ appPc = "idle"
    /\ GenerateOffered(text_area)
    /\ resume' = resume_data
    /\ job_description' = JobText(Strip(text_area))
    /\ genPc' = "start"
    /\ upstream' = NoReply
    /\ invoked' = FALSE
    /\ content' = <<>>
    /\ cover_letter' = <<>>
    /\ aiResult' = Pending
    /\ mainResult' = Pending
    /\ appPc' = "generating"
    /\ message' = "none"
    /\ UNCHANGED <<resume_data, text_area, session_cover_letter, session_pdf_bytes,
                   rendered_from, pdfVars>>

\* lines 98-103: generate_cover_letter returned; the letter is stored and
\* create_pdf is called with it
AppStoreLetter ==
    /\ appPc = "generating"
    /\ genPc = "done"
    /\ mainResult.kind = "return"
    /\ session_cover_letter' = SomeText(mainResult.value)
    /\ entry' = "create_pdf"
    /\ rawText' = mainResult.value
    /\ cover_letter_text' = mainResult.value
    /\ pdfPc' = "start"
    /\ pdfResult' = NoResult
    /\ appPc' = "rendering"
    /\ UNCHANGED <<resume_data, text_area, session_pdf_bytes, rendered_from, message,
                   pdfLocals, advPc, advLocals, advResult, advFailure, genVars>>

\* lines 98 and 109-114: generate_cover_letter raised; the error is shown
AppGenerateFails ==
    /\ appPc = "generating"
    /\ genPc = "done"
    /\ mainResult.kind = "raise"
    /\ message' = IF mainResult.type = "ValueError" THEN "validation_error" ELSE "error"
    /\ appPc' = "idle"
    /\ UNCHANGED <<resume_data, text_area, session_cover_letter, session_pdf_bytes,
                   rendered_from, pdfVars, genVars>>

\* lines 103-107: create_pdf returned; its bytes are stored
AppStorePdf ==
    /\ appPc = "rendering"
    /\ pdfPc = "done"
    /\ pdfResult.kind = "return"
    /\ session_pdf_bytes' = SomePdf(pdfResult.value)
    /\ rendered_from' = SomeText(cover_letter_text)
    /\ message' = "success"
    /\ appPc' = "idle"
    /\ UNCHANGED <<resume_data, text_area, session_cover_letter, pdfVars, genVars>>

\* lines 103 and 111-114: create_pdf raised; the error is shown
AppPdfFails ==
    /\ appPc = "rendering"
    /\ pdfPc = "done"
    /\ pdfResult.kind = "raise"
    /\ message' = "error"
    /\ appPc' = "idle"
    /\ UNCHANGED <<resume_data, text_area, session_cover_letter, session_pdf_bytes,
                   rendered_from, pdfVars, genVars>>

\* lines 122 and 150-153: Generate New is clicked
AppGenerateNew ==
    /\ appPc = "idle"
    /\ ~session_cover_letter.isNone
    /\ session_cover_letter.value # <<>>
    /\ session_cover_letter' = NoneText
    /\ session_pdf_bytes' = NonePdf
    /\ rendered_from' = NoneText
    /\ message' = Hint(text_area)
    /\ UNCHANGED <<appPc, resume_data, text_area, pdfVars, genVars>>

InitApp == AppInit /\ GenIdle /\ PdfIdle

NextApp ==
    \/ AppEditJob
    \/ AppGenerate
    \/ MainValidate
    \/ AiClientFails
    \/ AiInvokeRaises
    \/ AiInvokeReturns
    \/ AiCleanup
    \/ MainFinish
    \/ AppStoreLetter
    \/ AppGenerateFails
    \/ CreatePdfStart
    \/ CreatePdfStep
    \/ CreatePdfStepFail
    \/ CreatePdfBuild
    \/ CreatePdfBuildFail
    \/ AppStorePdf
    \/ AppPdfFails
    \/ AppGenerateNew

SpecApp == InitApp /\ [][NextApp]_vars

----------------------------------------------------------------------------
(* Properties of generate_cover_letter                                     *)

EdgeChars == Whitespace \cup {"{", "}", "\""}
CleanEdges(t) == t # <<>> /\ t[1] \notin EdgeChars /\ t[Len(t)] \notin EdgeChars
IsEnvelope == upstream.form \in {"envelope", "pretty"}
AiFinished == genPc \in {"ai_done", "done"}
CleanupRan == AiFinished /\ upstream # NoReply

ProfileAcceptable(r) ==
    /\ RequiredSet \subseteq DOMAIN r
    /\ \A k \in {"experience", "skills", "project"} :
          r[k].type = "list" /\ r[k].len > 0
    /\ r["contacts"].type = "dict"
    /\ r["contacts"].len > 0
    /\ "email" \in r["contacts"].keys

JobAcceptable(jd) == jd.type = "str" /\ Len(Strip(jd.text)) >= JobMinLen

\* the ValueError validation raises for the inputs of this run
ValidationError ==
    IF ~ProfileAcceptable(resume)
    THEN Exc("ValueError", validate_resume(resume))
    ELSE Exc("ValueError", validate_job_description(job_description))

\* C5 as stated: for a JSON envelope whose inner text is longer than 100
\* characters the returned string is the inner text exactly and has no
\* brace or quote left at its ends, whatever the inner text.
C5_AsStated ==
    (CleanupRan /\ IsEnvelope /\ Len(upstream.inner) > 100)
        => /\ aiResult = Ret(upstream.inner)
           /\ CleanEdges(aiResult.value)

\* C5: for a JSON envelope whose inner text is longer than 100 characters
\* and neither begins nor ends with whitespace, a brace or a double quote,
\* generate_cover_letter_with_ai returns the inner text exactly, and so
\* does generate_cover_letter.
C5_EnvelopeUnwrapped ==
    (CleanupRan /\ IsEnvelope /\ Len(upstream.inner) > 100
                /\ CleanEdges(upstream.inner))
        => /\ aiResult = Ret(upstream.inner)
           /\ genPc = "done" => mainResult = Ret(upstream.inner)

C5_Witness ==
    /\ genPc = "done"
    /\ upstream.form = "envelope"
    /\ Len(upstream.inner) > 100
    /\ CleanEdges(upstream.inner)
    /\ Contains(upstream.inner, BlankLine)
    /\ Contains(content, <<"\\", "n">>)
    /\ mainResult = Ret(upstream.inner)

\* C6: a model text whose length after every clean-up step is under 100
\* ends in a raised generation failure in generate_cover_letter_with_ai
\* and in generate_cover_letter; whatever either returns is the cleaned
\* text and has at least 100 characters.
C6_ShortOutputRaises ==
    /\ (CleanupRan /\ Len(cover_letter) < 100)
          => /\ aiResult.kind = "raise"
             /\ genPc = "done" => mainResult.kind = "raise" /\ mainResult.type = "Exception"
    /\ aiResult.kind = "return"
          => aiResult.value = cover_letter /\ Len(cover_letter) >= 100
    /\ mainResult.kind = "return"
          => mainResult.value = cover_letter /\ Len(Strip(mainResult.value)) >= 100

C6_Witness ==
    /\ genPc = "done"
    /\ upstream # NoReply
    /\ Len(cover_letter) = 99
    /\ Len(content) > 100
    /\ mainResult.kind = "raise"

\* C7: with an invalid profile or job description the run ends in the
\* ValueError of the validation, unwrapped, and bedrock.invoke_model is
\* never called; a ValueError reaches the caller in no other run, so no
\* failure of the generation step surfaces as one.
C7_ValidationBeforeCall ==
    /\ (genPc # "start" /\ ~(ProfileAcceptable(resume) /\ JobAcceptable(job_description)))
          => /\ genPc = "done"
             /\ ~invoked
             /\ mainResult = ValidationError
    /\ (mainResult.kind = "raise" /\ mainResult.type = "ValueError")
          => /\ ~(ProfileAcceptable(resume) /\ JobAcceptable(job_description))
             /\ aiResult = Pending

C7_Witness ==
    /\ genPc = "done"
    /\ ProfileAcceptable(resume)
    /\ job_description.type = "str"
    /\ job_description.len >= JobMinLen
    /\ ~JobAcceptable(job_description)
    /\ ~invoked
    /\ mainResult.type = "ValueError"

\* C8: validate_resume accepts a profile exactly when the four keys are
\* present, experience, skills and project are non-empty lists and
\* contacts is a non-empty dict with the key "email"; every other profile
\* ends the run with the ValueError of validate_resume.
C8_AcceptsIffComplete ==
    /\ ProfileAcceptable(resume) <=> validate_resume(resume) = NoError
    /\ (genPc # "start" /\ ~ProfileAcceptable(resume))
          => /\ mainResult.kind = "raise"
             /\ mainResult.type = "ValueError"
             /\ mainResult.msg = validate_resume(resume)
             /\ mainResult.msg # NoError
    /\ (genPc # "start" /\ ProfileAcceptable(resume) /\ JobAcceptable(job_description))
          => mainResult.type # "ValueError"

C8_Witness ==
    /\ genPc = "ai"
    /\ ProfileAcceptable(resume)
    /\ mainResult = Pending

----------------------------------------------------------------------------
(* C11 *)

\* C11: a paragraph classified Body is emitted as exactly one element, of the
\* body style, whose text has the paragraph's length, a space wherever the
\* paragraph has a line break and the paragraph's character everywhere
\* else; the emitted text holds no line break.
C11_BodyBreaksCollapsed ==
    LoopFinished =>
    \A k \in Visited :
        RoleOf(k) = "Body" =>
            /\ Len(ElementsOf(k)) = 1
            /\ ElementsOf(k)[1].kind = "Paragraph"
            /\ ElementsOf(k)[1].style = "body_style"
            /\ Len(ElementsOf(k)[1].text) = Len(P(k))
            /\ \A a \in 1..Len(P(k)) :
                  ElementsOf(k)[1].text[a] = (IF P(k)[a] = "\n" THEN " " ELSE P(k)[a])
            /\ ~HasLineBreak(ElementsOf(k)[1].text)

\* a Body paragraph with two internal line breaks, emitted as one element
C11_Witness ==
    /\ LoopFinished
    /\ \E k \in Visited :
          /\ RoleOf(k) = "Body"
          /\ \E a \in 1..Len(P(k)) : \E b \in (a + 1)..Len(P(k)) :
                P(k)[a] = "\n" /\ P(k)[b] = "\n"
          /\ Len(ElementsOf(k)) = 1

----------------------------------------------------------------------------
(* C12 *)

\* the first-match-wins order of the specification's classification rule
\* for the non-empty paragraph t at index i under the flags gs (greetingSeen)
\* and cs (closingSeen)
SpecOrder(t, i, gs, cs) ==
    IF i = 0 /\ HeaderPattern(t) THEN "Header"
    ELSE IF ShortMonth(t) THEN "Date"
    ELSE IF BeginsWith(t, SubjectPrefix) THEN "Subject"
    ELSE IF BeginsWith(t, DearPrefix) THEN "Greeting"
    ELSE IF BeginsWith(t, SincerelyPrefix) THEN "Closing"
    ELSE IF ~gs /\ i > 0 /\ Len(t) < 200 /\ HasLineBreak(t) THEN "EmployerInfo"
    ELSE IF gs /\ ~cs THEN "Body"
    ELSE "Dropped"

\* a paragraph classified j with j < k
SeenBefore(k, role) == \E j \in 1..(k - 1) : RoleOf(j) = role

\* C12: the branch the if-chain of create_pdf took for the paragraph handled
\* last is the outcome of the specification's order under the same index and
\* flags, the flags after it are those the specification's order sets, and
\* for that paragraph the two orders agree under every index and every
\* pair of flag values.
C12_CheckOrderEquivalent ==
    (pdfPc = "loop" /\ roleLog # <<>> /\ P(Len(roleLog)) # <<>>) =>
    LET k == Len(roleLog)
        t == P(k)
        chosen == SpecOrder(t, k - 1, SeenBefore(k, "Greeting"), SeenBefore(k, "Closing"))
    IN  /\ RoleOf(k) = chosen
        /\ greeting_found = (SeenBefore(k, "Greeting") \/ chosen = "Greeting")
        /\ closing_found = (SeenBefore(k, "Closing") \/ chosen = "Closing")
        /\ (chosen = "Dropped") = (ElementsOf(k) = <<>>)
        /\ \A i \in {0, 1, k - 1} : \A gs \in BOOLEAN : \A cs \in BOOLEAN :
              Branch(t, i, gs, cs) = SpecOrder(t, i, gs, cs)

\* a paragraph before the greeting, past index 0, short and with a line
\* break, that also begins with "Subject:": both orders make it Subject
C12_Witness ==
    /\ pdfPc = "loop"
    /\ roleLog # <<>>
    /\ LET k == Len(roleLog)
       IN  /\ k > 1
           /\ ~SeenBefore(k, "Greeting")
           /\ Len(P(k)) < 200
           /\ HasLineBreak(P(k))
           /\ BeginsWith(P(k), SubjectPrefix)
           /\ RoleOf(k) = "Subject"

----------------------------------------------------------------------------
(* C13 *)

\* C13: within a call of create_pdf, from the paragraph classified Closing
\* on closing_found is set and stays set, and the paragraph handled last is
\* not Body when a Closing came before it -- whether or not a greeting came
\* before or after that Closing.
C13_NoBodyAfterClosing ==
    (pdfPc = "loop" /\ roleLog # <<>>) =>
    LET k == Len(roleLog)
    IN  /\ (\E j \in 1..k : RoleOf(j) = "Closing") => closing_found
        /\ SeenBefore(k, "Closing") =>
              /\ RoleOf(k) # "Body"
              /\ \A e \in 1..Len(ElementsOf(k)) : ElementsOf(k)[e].style # "body_style"

\* a Closing before the first greeting, then a greeting, then prose that is
\* not rendered
C13_Witness ==
    /\ pdfPc = "loop"
    /\ Len(roleLog) >= 3
    /\ LET k == Len(roleLog)
       IN  /\ RoleOf(k) = "Dropped"
           /\ RoleOf(k - 1) = "Greeting"
           /\ RoleOf(k - 2) = "Closing"
           /\ ~SeenBefore(k - 2, "Greeting")
           /\ closing_found

----------------------------------------------------------------------------
(* C14 *)

\* C14 as stated: create_pdf_advanced draws no line of text with the cursor
\* below the page-break threshold (bottom margin + 2 cm).
C14_AsStated ==
    \A d \in 1..Len(drawn) : drawn[d].y >= PageBreakThreshold

----------------------------------------------------------------------------
(* C15 *)

\* C15 as stated: whatever the model sent, a string returned by the clean-up
\* of generate_cover_letter_with_ai neither begins nor ends with "{", "}" or
\* a double quote.
C15_AsStated ==
    (CleanupRan /\ aiResult.kind = "return") =>
        /\ aiResult.value[1] \notin {"{", "}", "\""}
        /\ aiResult.value[Len(aiResult.value)] \notin {"{", "}", "\""}

----------------------------------------------------------------------------
(* C16 *)

\* the branches the if-chain takes over the paragraphs ps when the index of
\* each is its position in ps, starting at i with the flags gf and cf
RECURSIVE BranchesFrom(_, _, _, _)
BranchesFrom(ps, i, gf, cf) ==
    IF ps = <<>> THEN <<>>
    ELSE LET branch == Branch(Strip(Head(ps)), i, gf, cf)
         IN  <<branch>> \o BranchesFrom(Tail(ps), i + 1, gf \/ branch = "Greeting",
                                        cf \/ branch = "Closing")

IsNonEmpty(q) == Strip(q) # <<>>
IsRole(entry_) == entry_.role # "Blank"
RolesTaken == [k \in 1..Len(SelectSeq(roleLog, IsRole)) |-> SelectSeq(roleLog, IsRole)[k].role]

\* C16 as stated: the roles create_pdf gives the non-empty paragraphs of a
\* text are the roles it would give them with the empty and whitespace-only
\* paragraphs taken out, that is, with each paragraph's index counted among
\* the non-empty paragraphs only.
C16_AsStated ==
    LoopFinished =>
        RolesTaken = BranchesFrom(SelectSeq(paragraphs, IsNonEmpty), 0, FALSE, FALSE)

----------------------------------------------------------------------------
(* C17 *)

\* the script is between two runs: what the page shows is what the session
\* state holds
AppAtRest == appPc = "idle"

\* C17 as stated: between script runs, whenever pdf_bytes is not None it was
\* rendered from the cover_letter the session state holds and the page
\* shows.
C17_AsStated ==
    (AppAtRest /\ ~session_pdf_bytes.isNone) =>
        rendered_from = session_cover_letter

====
